---------------------------- MODULE Spec2Model ----------------------------
(***************************************************************************)
(* Multi-client chat relay of src/server.py: one session thread per       *)
(* accepted socket (handle_client), the shared registry `clients`         *)
(* guarded by `clients_lock`, and the operations broadcast,               *)
(* remove_client and send_whisper.                                         *)
(*                                                                         *)
(* Text is modelled as a sequence of characters (one-character strings);  *)
(* the fixed Korean literals of the source are single tokens written in   *)
(* ASCII.  A socket write is recorded in `wire` whether or not it         *)
(* succeeds; `ok` tells the outcome.  `wire[s]` is the bag of the writes  *)
(* made to s: what was written and how often.                              *)
(***************************************************************************)
EXTENDS Integers, Sequences, FiniteSets, Bags

(* ------------------------------ bounds --------------------------------- *)
\* lines and ends of input that all sessions together read in their command loops
MaxLines == 1
\* peers that may reset their connection
MaxFaults == 1
\* lines and ends of input read in the runs without peer resets
MaxTalk == 2
\* peers that may reset their connection in the runs of double failure
MaxCrashes == 2
\* results of sock.recv that a peer's connection delivers, and calls of
\* recv_line made on it
MaxChunks == 3
MaxCalls == 3

\* the accepted sockets; the session thread of a socket bears its name
Conns == {"A", "B", "C"}
\* None, where a socket or a thread is expected
None == "None"
\* None, where a str is expected (recv_line at EOF, clients.pop of an absent key)
NoLine == <<"None">>

(* ------------------------------- text ---------------------------------- *)
\* characters str.strip() removes
WS == {" "}

RECURSIVE LStrip(_)
LStrip(s) == IF s # <<>> /\ Head(s) \in WS THEN LStrip(Tail(s)) ELSE s

RECURSIVE RStrip(_)
RStrip(s) == IF s # <<>> /\ s[Len(s)] \in WS THEN RStrip(SubSeq(s, 1, Len(s) - 1)) ELSE s

\* a text taken as it came
Unstripped(s) == s

\* str.strip()
Strip(s) == RStrip(LStrip(s))

\* str.startswith(p)
StartsWith(s, p) == Len(s) >= Len(p) /\ SubSeq(s, 1, Len(p)) = p

\* index of the first ' ' of s, 0 when there is none
FirstSpace(s) == IF \E i \in 1..Len(s) : s[i] = " "
                 THEN CHOOSE i \in 1..Len(s) : s[i] = " " /\ \A j \in 1..(i - 1) : s[j] # " "
                 ELSE 0

\* a split at every space, whatever the limit
RECURSIVE SplitEvery(_, _)
SplitEvery(s, n) == IF FirstSpace(s) = 0
                    THEN <<s>>
                    ELSE <<SubSeq(s, 1, FirstSpace(s) - 1)>>
                             \o SplitEvery(SubSeq(s, FirstSpace(s) + 1, Len(s)), n)

\* str.split(' ', n)
RECURSIVE Split(_, _)
Split(s, n) == IF n = 0 \/ FirstSpace(s) = 0
               THEN <<s>>
               ELSE <<SubSeq(s, 1, FirstSpace(s) - 1)>>
                        \o Split(SubSeq(s, FirstSpace(s) + 1, Len(s)), n - 1)

\* another token as the quit command
QuitOther == <<"/", "q">>

\* '/종료'
QUIT == <<"/", "jong", "ryo">>
\* '/w '
WPREFIX == <<"/", "w", " ">>

\* '[SYSTEM] 닉네임이 비었습니다.'
RefuseMsg == <<"[SYSTEM] nickname is empty.">>
\* '[SYSTEM] 연결됨. "/종료" 종료, "/w 닉 메시지" 귓속말.'
WelcomeMsg == <<"[SYSTEM] connected.">>
\* '[SYSTEM] 사용법: /w 닉네임 메시지'
UsageMsg == <<"[SYSTEM] usage: /w nickname message">>
\* f'[SYSTEM] [{nickname}] 님이 입장하셨습니다.'
JoinMsg(n) == <<"[SYSTEM] [">> \o n \o <<"] has joined.">>
\* f'[SYSTEM] [{nickname}] 님이 퇴장하셨습니다.'
LeaveMsg(n) == <<"[SYSTEM] [">> \o n \o <<"] has left.">>
\* f'{nickname}> {text}'
ChatMsg(n, text) == n \o <<">", " ">> \o text
\* f'(귓속말) {sender}> {content}'
WhisperMsg(sender, content) == <<"(whisper) ">> \o sender \o <<">", " ">> \o content
\* f'(귓속말 보냄) {target_name}에게> {content}'
WhisperSentMsg(target_name, content) == <<"(whisper sent) ">> \o target_name \o <<" to", ">", " ">> \o content
\* f'[SYSTEM] 대상 [{target_name}] 없음.'
NotFoundMsg(target_name) == <<"[SYSTEM] target [">> \o target_name \o <<"] not found.">>

(* ------------------------------ inputs --------------------------------- *)
\* The peers: A and B send a nickname, C sends the nickname B has, or an
\* empty or blank first line, or nothing.  Only A's peer goes on to send
\* lines; the peers of A and B may reset their connection.
NickLines(t) ==
    IF t = "A" THEN { <<"a">> }
    ELSE IF t = "B" THEN { <<" ", "b", " ">> }
    ELSE { <<"b">>, <<>>, <<" ">>, NoLine }

Speakers == {"A"}
Faulty == {"A", "B"}

\* later lines a peer may send
LoopLines == { <<" ", "h", "i", " ">>,
               <<" ">>,
               <<"/", "jong", "ryo">>,
               <<"/", "w", " ", "b", " ", "x", " ", "y">>,
               <<"/", "w", " ", "c", " ", "x">>,
               <<"/", "w", " ", "b">> }

(* ------------------------------- state --------------------------------- *)
VARIABLES
    clients,       \* the registry: <<[sock, name], ...>> in insertion order
    clients_lock,  \* the thread holding the lock, or None
    closed,        \* closed[s]: sock.close() was called on s
    peerDown,      \* peerDown[s]: the peer of s reset the connection
    accepted,      \* sockets srv.accept() has returned
    pc,            \* position of each session thread in handle_client
    stack,         \* call stack of each thread below handle_client
    nickname,      \* handle_client's local `nickname`
    text,          \* handle_client's local `text`
    target_sock,   \* send_whisper's local `target_sock`
    read,          \* read[t]: the lines the session's loop has read, as received
    wire,          \* wire[s]: the bag of the writes made to socket s
    bcasts,        \* the snapshots broadcast calls have taken
    stored,        \* stored[s]: how often handle_client stored an entry of s
    popped,        \* popped[s]: how often remove_client popped an entry of s
    departures,    \* departures[s]: how often a departure of s was broadcast
    regAt,         \* regAt[s]: the sockets registered when s was stored
    nLines,        \* lines read so far by all command loops
    nFaults,       \* peer resets so far
    net,           \* what the coming calls of sock.recv on one socket return
    buf,           \* recv_line's local `buf`
    rpc,           \* position of the thread in recv_line
    got,           \* the lines recv_line has cut off and the values it returned
    taken          \* the bytes sock.recv has delivered so far

shared  == <<clients, clients_lock, closed, peerDown, accepted>>
locals  == <<pc, stack, nickname, text, target_sock, read>>
history == <<wire, bcasts, stored, popped, departures, regAt>>
budget  == <<nLines, nFaults>>
reader  == <<net, buf, rpc, got, taken>>
vars    == <<shared, locals, history, budget, reader>>

\* the sockets of the registry, in iteration order
Keys(reg) == [i \in 1..Len(reg) |-> reg[i].sock]
KeySet(reg) == {reg[i].sock : i \in 1..Len(reg)}

\* the relay before any connection
InitRelay ==
    /\ clients = <<>>
    /\ clients_lock = None
    /\ closed = [s \in Conns |-> FALSE]
    /\ peerDown = [s \in Conns |-> FALSE]
    /\ accepted = {}
    /\ pc = [t \in Conns |-> "idle"]
    /\ stack = [t \in Conns |-> <<>>]
    /\ nickname = [t \in Conns |-> NoLine]
    /\ text = [t \in Conns |-> NoLine]
    /\ target_sock = [t \in Conns |-> None]
    /\ read = [t \in Conns |-> <<>>]
    /\ wire = [s \in Conns |-> EmptyBag]
    /\ bcasts = {}
    /\ stored = [s \in Conns |-> 0]
    /\ popped = [s \in Conns |-> 0]
    /\ departures = [s \in Conns |-> 0]
    /\ regAt = [s \in Conns |-> {}]
    /\ nLines = 0
    /\ nFaults = 0

\* no call of recv_line is looked at byte by byte
ReaderIdle ==
    /\ net = <<>>
    /\ buf = <<>>
    /\ rpc = "idle"
    /\ got = <<>>
    /\ taken = <<>>

Init == InitRelay /\ ReaderIdle

(* ------------------------------ helpers -------------------------------- *)
\* (text + '\n'): the bytes of one line
Data(msg) == msg \o <<"\n">>

\* sock.sendall succeeds unless the socket is closed or its peer is gone
SendOk(s) == ~closed[s] /\ ~peerDown[s]

\* one sock.sendall(data) on socket s, as it appears on the wire
Written(s, kind, about, ln, msg) ==
    [wire EXCEPT ![s] = @ (+) SetToBag({[kind |-> kind, about |-> about, ln |-> ln,
                                          text |-> Data(msg), ok |-> SendOk(s)]})]

\* the number of the line the session of t is at: 0 before its loop
LineNo(t) == Len(read[t])

Top(t) == stack[t][Len(stack[t])]
Pop(stk) == SubSeq(stk, 1, Len(stk) - 1)
Running(t, fn, at) == stack[t] # <<>> /\ Top(t).fn = fn /\ Top(t).pc = at
AtTop(stk, f) == Append(Pop(stk), f)

\* a call of broadcast(text, exclude)
BcFrame(msg, kind, about, ln, exclude) ==
    [fn |-> "broadcast", pc |-> "bc_lock", text |-> msg, kind |-> kind, about |-> about,
     ln |-> ln, exclude |-> exclude, targets |-> <<>>, sock |-> None, nick |-> NoLine]

\* a call of remove_client(sock)
RmFrame(sock, ln) ==
    [fn |-> "remove_client", pc |-> "rm_lock", text |-> <<>>, kind |-> None, about |-> None,
     ln |-> ln, exclude |-> None, targets |-> <<>>, sock |-> sock, nick |-> NoLine]

\* a call that has nothing left to do: a broadcast whose loop has run through
\* its targets, a remove_client whose departure broadcast has returned
Finished(f) ==
    \/ f.fn = "broadcast" /\ f.pc = "bc_send" /\ f.targets = <<>>
    \/ f.fn = "remove_client" /\ f.pc = "rm_bcast"

\* the returns of the calls that are finished, innermost first
RECURSIVE Unwind(_)
Unwind(stk) ==
    IF stk # <<>> /\ Finished(stk[Len(stk)]) THEN Unwind(Pop(stk)) ELSE stk

\* a handle_client that ends without its finally block
FinallySkips(t) ==
    /\ pc' = [pc EXCEPT ![t] = "done"]
    /\ UNCHANGED stack

\* `finally: remove_client(sock)`, after which handle_client ends
Finally(t) ==
    /\ pc' = [pc EXCEPT ![t] = "done"]
    /\ stack' = [stack EXCEPT ![t] = Append(@, RmFrame(t, LineNo(t)))]

\* a fan-out to every connection accepted, registered or not
TargetsAccepted(reg, exclude) ==
    SelectSeq(<<"A", "B", "C">>, LAMBDA s : s \in accepted /\ s # exclude)

\* [s for s in clients.keys() if s is not exclude]
Targets(reg, exclude) == SelectSeq(Keys(reg), LAMBDA s : s # exclude)

\* a scan that keeps the last match
FindLastByName(reg, name) ==
    IF \E i \in 1..Len(reg) : reg[i].name = name
    THEN reg[CHOOSE i \in 1..Len(reg) : reg[i].name = name
                  /\ \A j \in (i + 1)..Len(reg) : reg[j].name # name].sock
    ELSE None

\* the first socket registered under `name`, or None
FindByName(reg, name) ==
    IF \E i \in 1..Len(reg) : reg[i].name = name
    THEN reg[CHOOSE i \in 1..Len(reg) : reg[i].name = name
                  /\ \A j \in 1..(i - 1) : reg[j].name # name].sock
    ELSE None

\* clients[sock] = nickname
Store(reg, sock, name) ==
    IF sock \in KeySet(reg)
    THEN [i \in 1..Len(reg) |-> IF reg[i].sock = sock THEN [sock |-> sock, name |-> name] ELSE reg[i]]
    ELSE Append(reg, [sock |-> sock, name |-> name])

\* a lookup that leaves the entry in place (clients.get for clients.pop)
WithoutKeeps(reg, sock) == reg

\* a removal that goes by the nickname of sock instead of by sock
WithoutByName(reg, sock) ==
    SelectSeq(reg, LAMBDA e : \A i \in 1..Len(reg) : reg[i].sock = sock => e.name # reg[i].name)

\* clients.pop(sock, None): the registry without sock
Without(reg, sock) == SelectSeq(reg, LAMBDA e : e.sock # sock)
\* clients.pop(sock, None): the value returned
Popped(reg, sock) ==
    IF sock \in KeySet(reg)
    THEN (CHOOSE e \in {reg[i] : i \in 1..Len(reg)} : e.sock = sock).name
    ELSE NoLine

\* _, target_name, content = text.split(' ', 2)
Parts(t) == Split(text[t], 2)

(* --------------------------- main: accept ------------------------------ *)
\* The runs looked at: every connection accepted and no peer reset, or a reset
\* for every connection that never comes.
Load == Cardinality(accepted) + nFaults

\* c, a = srv.accept(); Thread(target=handle_client, args=(c,)).start()
Accept(t) ==
    /\ t \notin accepted
    /\ Load < Cardinality(Conns)
    /\ accepted' = accepted \cup {t}
    /\ pc' = [pc EXCEPT ![t] = "recv_nick"]
    /\ UNCHANGED <<clients, clients_lock, closed, peerDown>>
    /\ UNCHANGED <<stack, nickname, text, target_sock, read>>
    /\ UNCHANGED <<history, budget>>

(* ----------------------- handle_client: nickname ----------------------- *)
\* nickname = recv_line(sock), and the test of line 38
RecvNick(t) ==
    /\ pc[t] = "recv_nick"
    /\ \E raw \in NickLines(t) :
          \/ /\ raw = NoLine \/ Strip(raw) = <<>>
             /\ nickname' = [nickname EXCEPT ![t] = raw]
             /\ pc' = [pc EXCEPT ![t] = "refuse"]
          \/ /\ raw # NoLine /\ Strip(raw) # <<>>
             /\ nickname' = [nickname EXCEPT ![t] = Strip(raw)]
             /\ pc' = [pc EXCEPT ![t] = "reg_lock"]
    /\ UNCHANGED <<shared, stack, text, target_sock, read, history, budget>>

\* sock.sendall('[SYSTEM] 닉네임이 비었습니다.\n')
Refuse(t) ==
    /\ pc[t] = "refuse"
    /\ wire' = Written(t, "refuse", t, 0, RefuseMsg)
    /\ IF SendOk(t)
       THEN pc' = [pc EXCEPT ![t] = "refuse_close"] /\ UNCHANGED stack
       ELSE Finally(t)
    /\ UNCHANGED <<shared, nickname, text, target_sock, read>>
    /\ UNCHANGED <<bcasts, stored, popped, departures, regAt, budget>>

\* sock.close(); return
RefuseClose(t) ==
    /\ pc[t] = "refuse_close"
    /\ closed' = [closed EXCEPT ![t] = TRUE]
    /\ Finally(t)
    /\ UNCHANGED <<clients, clients_lock, peerDown, accepted>>
    /\ UNCHANGED <<nickname, text, target_sock, read, history, budget>>

(* --------------------- handle_client: registration --------------------- *)
\* a registration that does not wait for the lock
RegLockFree(t) ==
    /\ pc[t] = "reg_lock"
    /\ clients_lock' = t
    /\ pc' = [pc EXCEPT ![t] = "reg_store"]
    /\ UNCHANGED <<clients, closed, peerDown, accepted>>
    /\ UNCHANGED <<stack, nickname, text, target_sock, read, history, budget>>

\* with clients_lock:
RegLock(t) ==
    /\ pc[t] = "reg_lock"
    /\ clients_lock = None
    /\ clients_lock' = t
    /\ pc' = [pc EXCEPT ![t] = "reg_store"]
    /\ UNCHANGED <<clients, closed, peerDown, accepted>>
    /\ UNCHANGED <<stack, nickname, text, target_sock, read, history, budget>>

\* a registration that goes on to the join broadcast without a welcome line
RegStoreUnwelcomed(t) ==
    /\ pc[t] = "reg_store"
    /\ clients' = Store(clients, t, nickname[t])
    /\ clients_lock' = None
    /\ stored' = [stored EXCEPT ![t] = @ + 1]
    /\ regAt' = [regAt EXCEPT ![t] = KeySet(clients)]
    /\ pc' = [pc EXCEPT ![t] = "loop"]
    /\ stack' = [stack EXCEPT ![t] =
          Append(@, BcFrame(JoinMsg(nickname[t]), "join", t, 0, None))]
    /\ UNCHANGED <<closed, peerDown, accepted>>
    /\ UNCHANGED <<nickname, text, target_sock, read>>
    /\ UNCHANGED <<wire, bcasts, popped, departures, budget>>

\* clients[sock] = nickname, and the release of the lock
RegStore(t) ==
    /\ pc[t] = "reg_store"
    /\ clients' = Store(clients, t, nickname[t])
    /\ clients_lock' = None
    /\ stored' = [stored EXCEPT ![t] = @ + 1]
    /\ regAt' = [regAt EXCEPT ![t] = KeySet(clients)]
    /\ pc' = [pc EXCEPT ![t] = "welcome"]
    /\ UNCHANGED <<closed, peerDown, accepted>>
    /\ UNCHANGED <<stack, nickname, text, target_sock, read>>
    /\ UNCHANGED <<wire, bcasts, popped, departures, budget>>

\* the exclude argument of the join broadcast (line 48)
JoinExclude(t) == None

\* a registration that passes over a failed welcome and announces the join
WelcomeSwallow(t) ==
    /\ pc[t] = "welcome"
    /\ wire' = Written(t, "welcome", t, 0, WelcomeMsg)
    /\ pc' = [pc EXCEPT ![t] = "loop"]
    /\ stack' = [stack EXCEPT ![t] =
          Append(@, BcFrame(JoinMsg(nickname[t]), "join", t, 0, JoinExclude(t)))]
    /\ UNCHANGED <<shared, nickname, text, target_sock, read>>
    /\ UNCHANGED <<bcasts, stored, popped, departures, regAt, budget>>

\* sock.sendall(welcome); broadcast(join, exclude=None)
Welcome(t) ==
    /\ pc[t] = "welcome"
    /\ wire' = Written(t, "welcome", t, 0, WelcomeMsg)
    /\ IF SendOk(t)
       THEN /\ pc' = [pc EXCEPT ![t] = "loop"]
            /\ stack' = [stack EXCEPT ![t] =
                  Append(@, BcFrame(JoinMsg(nickname[t]), "join", t, 0, JoinExclude(t)))]
       ELSE Finally(t)
    /\ UNCHANGED <<shared, nickname, text, target_sock, read>>
    /\ UNCHANGED <<bcasts, stored, popped, departures, regAt, budget>>

(* ------------------------ handle_client: the loop ---------------------- *)
\* a loop that reads its next line while the call made for the last one
\* is still running
ReturnedOrNot(t) == TRUE

\* the call the loop made for its last line (broadcast, line 71) has returned
Returned(t) == stack[t] = <<>>

\* line = recv_line(sock) and the dispatch of lines 52-71, in a run in which
\* the loops read `quota` lines and ends of input
RecvLineOf(t, quota) ==
    /\ pc[t] = "loop"
    /\ Returned(t)
    /\ target_sock' = [target_sock EXCEPT ![t] = None]
    /\ \/ \* recv_line returns None: sock.recv raises OSError on the closed socket
          /\ closed[t]
          /\ text' = [text EXCEPT ![t] = NoLine]
          /\ Finally(t)
          /\ UNCHANGED <<read, nLines>>
       \/ \* recv_line returns None: the peer has closed or reset the connection
          /\ ~closed[t]
          /\ t \in Speakers
          /\ nLines < quota
          /\ nLines' = nLines + 1
          /\ text' = [text EXCEPT ![t] = NoLine]
          /\ Finally(t)
          /\ UNCHANGED read
       \/ /\ ~closed[t]
          /\ t \in Speakers
          /\ nLines < quota
          /\ nLines' = nLines + 1
          /\ \E raw \in LoopLines :
                LET txt == Strip(raw) IN
                /\ read' = [read EXCEPT ![t] = Append(@, raw)]
                /\ text' = [text EXCEPT ![t] = txt]
                /\ IF txt = <<>>
                   THEN UNCHANGED <<pc, stack>>
                   ELSE IF txt = QUIT
                   THEN /\ pc' = [pc EXCEPT ![t] = "done"]
                        /\ stack' = [stack EXCEPT ![t] = Append(@, RmFrame(t, LineNo(t) + 1))]
                   ELSE IF StartsWith(txt, WPREFIX)
                   THEN /\ pc' = [pc EXCEPT ![t] =
                                     IF Len(Split(txt, 2)) < 3 THEN "usage" ELSE "w_lock"]
                        /\ UNCHANGED stack
                   ELSE /\ stack' = [stack EXCEPT ![t] = Append(@,
                               BcFrame(ChatMsg(nickname[t], txt), "chat", t, LineNo(t) + 1, None))]
                        /\ UNCHANGED pc
    /\ UNCHANGED <<shared, nickname, history, nFaults>>

RecvLine(t) == RecvLineOf(t, MaxLines)

\* sock.sendall('[SYSTEM] 사용법: /w 닉네임 메시지\n'); continue
Usage(t) ==
    /\ pc[t] = "usage"
    /\ wire' = Written(t, "usage", t, LineNo(t), UsageMsg)
    /\ IF SendOk(t)
       THEN pc' = [pc EXCEPT ![t] = "loop"] /\ UNCHANGED stack
       ELSE Finally(t)
    /\ UNCHANGED <<shared, nickname, text, target_sock, read>>
    /\ UNCHANGED <<bcasts, stored, popped, departures, regAt, budget>>

(* ----------------------------- send_whisper ---------------------------- *)
\* with clients_lock:
WLock(t) ==
    /\ pc[t] = "w_lock"
    /\ clients_lock = None
    /\ clients_lock' = t
    /\ pc' = [pc EXCEPT ![t] = "w_find"]
    /\ UNCHANGED <<clients, closed, peerDown, accepted>>
    /\ UNCHANGED <<stack, nickname, text, target_sock, read, history, budget>>

\* the scan of lines 79-82, and the release of the lock
WFind(t) ==
    /\ pc[t] = "w_find"
    /\ target_sock' = [target_sock EXCEPT ![t] = FindByName(clients, Parts(t)[2])]
    /\ clients_lock' = None
    /\ pc' = [pc EXCEPT ![t] = IF target_sock'[t] = None THEN "w_nf" ELSE "w_tgt"]
    /\ UNCHANGED <<clients, closed, peerDown, accepted>>
    /\ UNCHANGED <<stack, nickname, text, read, history, budget>>

\* a report whose failure is passed over like those of lines 88-91
WNotFoundSwallow(t) ==
    /\ pc[t] = "w_nf"
    /\ wire' = Written(t, "notfound", t, LineNo(t), NotFoundMsg(Parts(t)[2]))
    /\ pc' = [pc EXCEPT ![t] = "loop"]
    /\ UNCHANGED <<shared, stack, nickname, text, target_sock, read>>
    /\ UNCHANGED <<bcasts, stored, popped, departures, regAt, budget>>

\* sender_sock.sendall(f'[SYSTEM] 대상 [{target_name}] 없음.\n'); return
WNotFound(t) ==
    /\ pc[t] = "w_nf"
    /\ wire' = Written(t, "notfound", t, LineNo(t), NotFoundMsg(Parts(t)[2]))
    /\ IF SendOk(t)
       THEN pc' = [pc EXCEPT ![t] = "loop"] /\ UNCHANGED stack
       ELSE Finally(t)
    /\ UNCHANGED <<shared, nickname, text, target_sock, read>>
    /\ UNCHANGED <<bcasts, stored, popped, departures, regAt, budget>>

\* a confirmation that goes to the target as well
WhisperBackToTarget(t) == target_sock[t]

\* the sockets the two sends of lines 86-89 go to
WhisperTo(t) == target_sock[t]
WhisperBackTo(t) == t

\* a send to the target whose failure ends the sender's session, like that
\* of line 84
WSendTargetFatal(t) ==
    /\ pc[t] = "w_tgt"
    /\ wire' = Written(WhisperTo(t), "whisper", t, LineNo(t),
                       WhisperMsg(nickname[t], Parts(t)[3]))
    /\ IF SendOk(WhisperTo(t))
       THEN pc' = [pc EXCEPT ![t] = "w_snd"] /\ UNCHANGED stack
       ELSE Finally(t)
    /\ UNCHANGED <<shared, nickname, text, target_sock, read>>
    /\ UNCHANGED <<bcasts, stored, popped, departures, regAt, budget>>

\* first turn of the loop of line 86: the send to the target, OSError passed
WSendTarget(t) ==
    /\ pc[t] = "w_tgt"
    /\ wire' = Written(WhisperTo(t), "whisper", t, LineNo(t),
                       WhisperMsg(nickname[t], Parts(t)[3]))
    /\ pc' = [pc EXCEPT ![t] = "w_snd"]
    /\ UNCHANGED <<shared, stack, nickname, text, target_sock, read>>
    /\ UNCHANGED <<bcasts, stored, popped, departures, regAt, budget>>

\* second turn: the confirmation to the sender, OSError passed
WSendSender(t) ==
    /\ pc[t] = "w_snd"
    /\ wire' = Written(WhisperBackTo(t), "wsent", t, LineNo(t),
                       WhisperSentMsg(Parts(t)[2], Parts(t)[3]))
    /\ pc' = [pc EXCEPT ![t] = "loop"]
    /\ UNCHANGED <<shared, stack, nickname, text, target_sock, read>>
    /\ UNCHANGED <<bcasts, stored, popped, departures, regAt, budget>>

(* ------------------------------ broadcast ------------------------------ *)
\* with clients_lock:
BcLock(t) ==
    /\ Running(t, "broadcast", "bc_lock")
    /\ clients_lock = None
    /\ clients_lock' = t
    /\ stack' = [stack EXCEPT ![t] = AtTop(@, [Top(t) EXCEPT !.pc = "bc_snap"])]
    /\ UNCHANGED <<clients, closed, peerDown, accepted>>
    /\ UNCHANGED <<pc, nickname, text, target_sock, read, history, budget>>

\* a broadcast that keeps the lock while it sends
BcSnapHolds(t) ==
    /\ Running(t, "broadcast", "bc_snap")
    /\ LET snap == Targets(clients, Top(t).exclude) IN
       /\ stack' = [stack EXCEPT ![t] =
             Unwind(AtTop(@, [Top(t) EXCEPT !.pc = "bc_send", !.targets = snap]))]
       /\ bcasts' = bcasts \cup {[kind |-> Top(t).kind, about |-> Top(t).about,
                                  ln |-> Top(t).ln, snap |-> snap]}
    /\ UNCHANGED <<clients, clients_lock, closed, peerDown, accepted>>
    /\ UNCHANGED <<pc, nickname, text, target_sock, read>>
    /\ UNCHANGED <<wire, stored, popped, departures, regAt, budget>>

\* targets = [...], and the release of the lock
BcSnap(t) ==
    /\ Running(t, "broadcast", "bc_snap")
    /\ LET snap == Targets(clients, Top(t).exclude) IN
       /\ stack' = [stack EXCEPT ![t] =
             Unwind(AtTop(@, [Top(t) EXCEPT !.pc = "bc_send", !.targets = snap]))]
       /\ bcasts' = bcasts \cup {[kind |-> Top(t).kind, about |-> Top(t).about,
                                  ln |-> Top(t).ln, snap |-> snap]}
    /\ clients_lock' = None
    /\ UNCHANGED <<clients, closed, peerDown, accepted>>
    /\ UNCHANGED <<pc, nickname, text, target_sock, read>>
    /\ UNCHANGED <<wire, stored, popped, departures, regAt, budget>>

\* a loop that gives up its remaining targets when a send fails
AfterFailedSendAbort(f, s) ==
    <<[f EXCEPT !.targets = <<>>], RmFrame(s, f.ln)>>

\* a loop that, when a send fails, tears down the session the line is
\* about instead of the one whose socket failed
AfterFailedSendBlames(f, s) ==
    <<[f EXCEPT !.targets = Tail(f.targets)], RmFrame(f.about, f.ln)>>

\* a loop that sends again to the socket that failed, after its removal
AfterFailedSendRetry(f, s) ==
    <<f, RmFrame(s, f.ln)>>

\* what the loop of line 15 does after the send to s failed (lines 18-20):
\* the rest of the targets, and the call it makes
AfterFailedSend(f, s) ==
    <<[f EXCEPT !.targets = Tail(f.targets)], RmFrame(s, f.ln)>>

\* one turn of `for s in targets`: s.sendall(data), remove_client(s) on OSError
BcSend(t) ==
    /\ Running(t, "broadcast", "bc_send")
    /\ LET f == Top(t)
           s == Head(f.targets) IN
       /\ wire' = Written(s, f.kind, f.about, f.ln, f.text)
       /\ stack' = [stack EXCEPT ![t] =
             IF SendOk(s)
             THEN Unwind(AtTop(@, [f EXCEPT !.targets = Tail(f.targets)]))
             ELSE Pop(@) \o AfterFailedSend(f, s)]
    /\ UNCHANGED <<shared, pc, nickname, text, target_sock, read>>
    /\ UNCHANGED <<bcasts, stored, popped, departures, regAt, budget>>

(* ---------------------------- remove_client ---------------------------- *)
\* with clients_lock:
RmLock(t) ==
    /\ Running(t, "remove_client", "rm_lock")
    /\ clients_lock = None
    /\ clients_lock' = t
    /\ stack' = [stack EXCEPT ![t] = AtTop(@, [Top(t) EXCEPT !.pc = "rm_pop"])]
    /\ UNCHANGED <<clients, closed, peerDown, accepted>>
    /\ UNCHANGED <<pc, nickname, text, target_sock, read, history, budget>>

\* a pop that goes on to close and announce inside the `with` block
RmPopHolds(t) ==
    /\ Running(t, "remove_client", "rm_pop")
    /\ LET s == Top(t).sock IN
       /\ clients' = Without(clients, s)
       /\ stack' = [stack EXCEPT ![t] =
             AtTop(@, [Top(t) EXCEPT !.pc = "rm_close", !.nick = Popped(clients, s)])]
       /\ popped' = IF Popped(clients, s) # NoLine THEN [popped EXCEPT ![s] = @ + 1] ELSE popped
    /\ UNCHANGED <<clients_lock, closed, peerDown, accepted>>
    /\ UNCHANGED <<pc, nickname, text, target_sock, read>>
    /\ UNCHANGED <<wire, bcasts, stored, departures, regAt, budget>>

\* nickname = clients.pop(sock, None), and the release of the lock
RmPop(t) ==
    /\ Running(t, "remove_client", "rm_pop")
    /\ LET s == Top(t).sock IN
       /\ clients' = Without(clients, s)
       /\ stack' = [stack EXCEPT ![t] =
             AtTop(@, [Top(t) EXCEPT !.pc = "rm_close", !.nick = Popped(clients, s)])]
       /\ popped' = IF Popped(clients, s) # NoLine THEN [popped EXCEPT ![s] = @ + 1] ELSE popped
    /\ clients_lock' = None
    /\ UNCHANGED <<closed, peerDown, accepted>>
    /\ UNCHANGED <<pc, nickname, text, target_sock, read>>
    /\ UNCHANGED <<wire, bcasts, stored, departures, regAt, budget>>

\* an announcement whatever the pop returned
AnnouncesAlways(nick) == TRUE

\* a teardown that never announces
AnnouncesNever(nick) == FALSE

\* `if nickname:` of line 31
Announces(nick) == nick # NoLine /\ nick # <<>>

\* a teardown that announces the departure and leaves the socket open
RmCloseLeavesOpen(t) ==
    /\ Running(t, "remove_client", "rm_close")
    /\ LET f == Top(t) IN
       IF Announces(f.nick)
       THEN /\ stack' = [stack EXCEPT ![t] =
                  Pop(@) \o <<[f EXCEPT !.pc = "rm_bcast"],
                              BcFrame(LeaveMsg(f.nick), "leave", f.sock, f.ln, None)>>]
            /\ departures' = [departures EXCEPT ![f.sock] = @ + 1]
       ELSE /\ stack' = [stack EXCEPT ![t] = Unwind(Pop(@))]
            /\ UNCHANGED departures
    /\ UNCHANGED <<clients, clients_lock, closed, peerDown, accepted>>
    /\ UNCHANGED <<pc, nickname, text, target_sock, read>>
    /\ UNCHANGED <<wire, bcasts, stored, popped, regAt, budget>>

\* sock.close() (OSError passed), then the departure broadcast if a
\* nickname was popped
RmClose(t) ==
    /\ Running(t, "remove_client", "rm_close")
    /\ LET f == Top(t) IN
       /\ closed' = [closed EXCEPT ![f.sock] = TRUE]
       /\ IF Announces(f.nick)
          THEN /\ stack' = [stack EXCEPT ![t] =
                     Pop(@) \o <<[f EXCEPT !.pc = "rm_bcast"],
                                 BcFrame(LeaveMsg(f.nick), "leave", f.sock, f.ln, None)>>]
               /\ departures' = [departures EXCEPT ![f.sock] = @ + 1]
          ELSE /\ stack' = [stack EXCEPT ![t] = Unwind(Pop(@))]
               /\ UNCHANGED departures
    /\ UNCHANGED <<clients, clients_lock, peerDown, accepted>>
    /\ UNCHANGED <<pc, nickname, text, target_sock, read>>
    /\ UNCHANGED <<wire, bcasts, stored, popped, regAt, budget>>

(* ----------------------------- environment ----------------------------- *)
\* the peer of s resets the connection: writes to s fail from now on
PeerReset(s) ==
    /\ s \in Faulty
    /\ s \in accepted
    /\ ~closed[s]
    /\ ~peerDown[s]
    /\ nFaults < MaxFaults
    /\ Load < Cardinality(Conns)
    /\ peerDown' = [peerDown EXCEPT ![s] = TRUE]
    /\ nFaults' = nFaults + 1
    /\ UNCHANGED <<clients, clients_lock, closed, accepted>>
    /\ UNCHANGED <<locals, history, nLines>>

\* the peer of s resets the connection, in the runs in which the peers of
\* both A and B may do so, as long as a connection is still to come
Crash(s) ==
    /\ s \in Faulty
    /\ s \in accepted
    /\ ~closed[s]
    /\ ~peerDown[s]
    /\ nFaults < MaxCrashes
    /\ Cardinality(accepted) < Cardinality(Conns)
    /\ peerDown' = [peerDown EXCEPT ![s] = TRUE]
    /\ nFaults' = nFaults + 1
    /\ UNCHANGED <<clients, clients_lock, closed, accepted>>
    /\ UNCHANGED <<locals, history, nLines>>

\* one step of the session thread of socket t
Step(t) ==
    \/ RecvNick(t)
    \/ Refuse(t)
    \/ RefuseClose(t)
    \/ RegLock(t)
    \/ RegStore(t)
    \/ Welcome(t)
    \/ RecvLine(t)
    \/ Usage(t)
    \/ WLock(t)
    \/ WFind(t)
    \/ WNotFound(t)
    \/ WSendTarget(t)
    \/ WSendSender(t)
    \/ BcLock(t)
    \/ BcSnap(t)
    \/ BcSend(t)
    \/ RmLock(t)
    \/ RmPop(t)
    \/ RmClose(t)

Next ==
    \/ \E t \in Conns : Accept(t) /\ UNCHANGED reader
    \/ \E t \in Conns : Step(t) /\ UNCHANGED reader
    \/ \E s \in Conns : PeerReset(s) /\ UNCHANGED reader

Spec == Init /\ [][Next]_vars

\* runs without peer resets in which the loops read up to MaxTalk lines
Talk(t) == RecvLineOf(t, MaxTalk)

NextTalk ==
    \/ \E t \in Conns : Accept(t) /\ UNCHANGED reader
    \/ \E t \in Conns : Step(t) /\ UNCHANGED reader
    \/ \E t \in Conns : Talk(t) /\ UNCHANGED reader

SpecTalk == Init /\ [][NextTalk]_vars

\* runs in which the peers of two connections may reset them
NextCrash ==
    \/ \E t \in Conns : Accept(t) /\ UNCHANGED reader
    \/ \E t \in Conns : Step(t) /\ UNCHANGED reader
    \/ \E s \in Conns : Crash(s) /\ UNCHANGED reader

SpecCrash == Init /\ [][NextCrash]_vars

(* ------------------------------ recv_line ------------------------------ *)
\* The calls of recv_line that one session makes on its socket, byte by byte.
\* a byte that is not valid UTF-8, and the character U+FFFD
BAD == "xFF"
REPL == "U+FFFD"

\* line.decode('utf-8', errors='replace')
Decode(bytes) == [i \in 1..Len(bytes) |-> IF bytes[i] = BAD THEN REPL ELSE bytes[i]]

\* sock.recv raises OSError
Reset == <<"OSError">>

\* what one sock.recv(4096) may return: a line, two lines (nickname and first
\* message together), part of a line, a line with an invalid byte, b'' at
\* the end of input
Chunks == { <<"a", "\n">>,
            <<"a", "\n", "h", "\n">>,
            <<"h">>,
            <<"b", "\n">>,
            <<BAD, "\n">>,
            <<>> }

\* index of the first b'\n' of bytes, 0 if there is none
FirstNewline(bytes) ==
    IF \E i \in 1..Len(bytes) : bytes[i] = "\n"
    THEN CHOOSE i \in 1..Len(bytes) : bytes[i] = "\n" /\ \A j \in 1..(i - 1) : bytes[j] # "\n"
    ELSE 0

InitRecv ==
    /\ InitRelay
    /\ net \in UNION {[1..n -> Chunks \cup {Reset}] : n \in 0..MaxChunks}
    /\ buf = <<>>
    /\ rpc = "idle"
    /\ got = <<>>
    /\ taken = <<>>

\* a call of recv_line: buf = b''
RCall ==
    /\ rpc = "idle"
    /\ Len(got) < MaxCalls
    /\ buf' = <<>>
    /\ rpc' = "test"
    /\ UNCHANGED <<net, got, taken>>

\* lines 97-103: if b'\n' in buf, split at the first one and return the
\* decoded line; buf is a local and goes with the return
RSplit ==
    /\ rpc = "test"
    /\ IF FirstNewline(buf) # 0
       THEN LET line == SubSeq(buf, 1, FirstNewline(buf) - 1) IN
            /\ got' = Append(got, [raw |-> line, out |-> Decode(line)])
            /\ buf' = <<>>
            /\ rpc' = "idle"
       ELSE /\ rpc' = "recv"
            /\ UNCHANGED <<buf, got>>
    /\ UNCHANGED <<net, taken>>

\* lines 104-110: chunk = sock.recv(4096); None on OSError or b''
RRecv ==
    /\ rpc = "recv"
    /\ net # <<>>
    /\ net' = Tail(net)
    /\ LET chunk == Head(net) IN
       IF chunk = Reset \/ chunk = <<>>
       THEN /\ got' = Append(got, [raw |-> buf, out |-> NoLine])
            /\ rpc' = "eof"
            /\ UNCHANGED <<buf, taken>>
       ELSE /\ buf' = buf \o chunk
            /\ taken' = taken \o chunk
            /\ rpc' = "test"
            /\ UNCHANGED got

NextRecv ==
    \/ RCall /\ UNCHANGED <<shared, locals, history, budget>>
    \/ RSplit /\ UNCHANGED <<shared, locals, history, budget>>
    \/ RRecv /\ UNCHANGED <<shared, locals, history, budget>>

SpecRecv == InitRecv /\ [][NextRecv]_vars

\* the steps of the thread of t that wait for nothing but clients_lock:
\* every statement of handle_client and of its callees except the reads
\* from the peer
Progress(t) ==
    /\ \/ Refuse(t)
       \/ RefuseClose(t)
       \/ RegLock(t)
       \/ RegStore(t)
       \/ Welcome(t)
       \/ Usage(t)
       \/ WLock(t)
       \/ WFind(t)
       \/ WNotFound(t)
       \/ WSendTarget(t)
       \/ WSendSender(t)
       \/ BcLock(t)
       \/ BcSnap(t)
       \/ BcSend(t)
       \/ RmLock(t)
       \/ RmPop(t)
       \/ RmClose(t)
    /\ UNCHANGED reader

\* every started thread is scheduled: a thread that can go on does go on
FairSpec == Spec /\ \A t \in Conns : WF_vars(Progress(t))

TypeOK ==
    /\ clients_lock \in Conns \cup {None}
    /\ KeySet(clients) \subseteq Conns
    /\ nLines \in 0..MaxLines \cup 0..MaxTalk
    /\ nFaults \in 0..MaxFaults \cup 0..MaxCrashes

(* ======================= properties of the relay ======================= *)
RECURSIVE SumCopies(_, _)
SumCopies(S, B) ==
    IF S = {} THEN 0
    ELSE LET r == CHOOSE x \in S : TRUE IN CopiesIn(r, B) + SumCopies(S \ {r}, B)

\* how many of the writes made to socket s pass Test
WritesTo(s, Test(_)) == SumCopies({r \in BagToSet(wire[s]) : Test(r)}, wire[s])

RECURSIVE SumOver(_, _)
SumOver(f, S) ==
    IF S = {} THEN 0
    ELSE LET x == CHOOSE y \in S : TRUE IN f[x] + SumOver(f, S \ {x})

\* a call of broadcast for this message is on some thread's stack
InProgress(kind, about, ln) ==
    \E t \in Conns : \E i \in 1..Len(stack[t]) :
        /\ stack[t][i].fn = "broadcast"
        /\ stack[t][i].kind = kind
        /\ stack[t][i].about = about
        /\ stack[t][i].ln = ln

\* the session thread of t has returned from handle_client
Ended(t) == pc[t] = "done" /\ stack[t] = <<>>

Range(seq) == {seq[i] : i \in 1..Len(seq)}

(* C1: after N registrations and M removals of a present entry, in any    *)
(* interleaving, the registry holds exactly N - M entries: the sockets    *)
(* registered and not removed, each once, under the nickname its session  *)
(* registered.                                                             *)
C1_RegistryExact ==
    /\ Len(clients) = SumOver(stored, Conns) - SumOver(popped, Conns)
    /\ KeySet(clients) = {s \in Conns : stored[s] > 0 /\ popped[s] = 0}
    /\ \A i, j \in 1..Len(clients) : clients[i].sock = clients[j].sock => i = j
    /\ \A i \in 1..Len(clients) : clients[i].name = nickname[clients[i].sock]

C1_Witness ==
    /\ SumOver(stored, Conns) = 3
    /\ SumOver(popped, Conns) = 1
    /\ Len(clients) = 2

(* C2: a public chat line of a registered connection is never written to  *)
(* that connection itself.                                                 *)
C2_NoEchoToSender ==
    \A s \in Conns : WritesTo(s, LAMBDA r : r.kind = "chat" /\ r.about = s) = 0

\* T is raw without its leading and trailing whitespace
IsTrimOf(T, raw) ==
    /\ T = <<>> \/ (T[1] \notin WS /\ T[Len(T)] \notin WS)
    /\ \E i \in 0..Len(raw) : \E j \in i..Len(raw) :
          /\ T = SubSeq(raw, i + 1, j)
          /\ \A k \in (1..i) \cup ((j + 1)..Len(raw)) : raw[k] \in WS

(* C3: the chat line with trimmed text T of a connection registered as K  *)
(* is written exactly once, as 'K> T', to every other connection of the   *)
(* snapshot its broadcast took, and to no other connection but the sender. *)
C3_ChatOnceToEveryOther ==
    \A b \in bcasts : b.kind = "chat" =>
        \A c \in Conns \ {b.about} :
            LET n == WritesTo(c, LAMBDA r : r.kind = "chat" /\ r.about = b.about /\ r.ln = b.ln)
                good == WritesTo(c, LAMBDA r :
                            /\ r.kind = "chat" /\ r.about = b.about /\ r.ln = b.ln
                            /\ \E k \in 1..Len(r.text) :
                                  /\ SubSeq(r.text, 1, k - 1) = nickname[b.about]
                                  /\ SubSeq(r.text, k, k + 1) = <<">", " ">>
                                  /\ IsTrimOf(SubSeq(r.text, k + 2, Len(r.text) - 1),
                                              read[b.about][b.ln])
                                  /\ r.text[Len(r.text)] = "\n")
            IN  /\ n = good
                /\ n <= 1
                /\ c \notin Range(b.snap) => n = 0
                /\ (c \in Range(b.snap) /\ ~InProgress("chat", b.about, b.ln)) => n = 1

C3_Witness ==
    \E b \in bcasts :
        /\ b.kind = "chat"
        /\ ~InProgress("chat", b.about, b.ln)
        /\ Cardinality(Range(b.snap) \ {b.about}) = 2

(* C4: the connection that registers never receives the join announcement *)
(* about itself.                                                           *)
C4_NoJoinToJoiner ==
    \A s \in Conns : WritesTo(s, LAMBDA r : r.kind = "join" /\ r.about = s) = 0

\* a call of broadcast for this message, of whatever line, is on some stack
Announcing(kind, about) == \E ln \in 0..MaxLines : InProgress(kind, about, ln)

JoinLine(K) == <<"[SYSTEM] [">> \o K \o <<"] has joined.", "\n">>
LeaveLine(K) == <<"[SYSTEM] [">> \o K \o <<"] has left.", "\n">>

(* C5, as claimed: once a connection has registered as K and its          *)
(* registration sequence is over, every other connection that was in the  *)
(* registry when it registered has been sent exactly one join line for K. *)
C5_JoinToAllAtRegistration ==
    \A t \in Conns :
        (stored[t] > 0 /\ pc[t] # "welcome" /\ ~InProgress("join", t, 0)) =>
            \A c \in regAt[t] \ {t} :
                WritesTo(c, LAMBDA r : r.kind = "join" /\ r.about = t) = 1

(* C5, amended: the join of K is broadcast exactly when the welcome line  *)
(* was written without error, and then every other connection of the      *)
(* snapshot the join broadcast took is sent exactly one join line         *)
(* containing K, and no connection outside the snapshot is sent any.      *)
C5_JoinOnceToSnapshot ==
    \A t \in Conns :
        /\ WritesTo(t, LAMBDA r : r.kind = "welcome" /\ r.ok) > 0 =>
              \/ InProgress("join", t, 0)
              \/ \E b \in bcasts : b.kind = "join" /\ b.about = t
        /\ WritesTo(t, LAMBDA r : r.kind = "welcome" /\ ~r.ok) > 0 =>
              /\ ~InProgress("join", t, 0)
              /\ \A c \in Conns : WritesTo(c, LAMBDA r : r.kind = "join" /\ r.about = t) = 0
        /\ \A b \in bcasts : (b.kind = "join" /\ b.about = t) =>
              \A c \in Conns \ {t} :
                  LET n == WritesTo(c, LAMBDA r : r.kind = "join" /\ r.about = t)
                      good == WritesTo(c, LAMBDA r : /\ r.kind = "join" /\ r.about = t
                                                     /\ r.text = JoinLine(nickname[t]))
                  IN  /\ n = good
                      /\ n <= 1
                      /\ c \notin Range(b.snap) => n = 0
                      /\ (c \in Range(b.snap) /\ ~InProgress("join", t, 0)) => n = 1

C5_Witness ==
    \E b \in bcasts :
        /\ b.kind = "join"
        /\ ~InProgress("join", b.about, 0)
        /\ Cardinality(Range(b.snap) \ {b.about}) = 2

(* C6: when a registered connection with nickname K is torn down, its     *)
(* entry is removed and its socket closed before the departure broadcast  *)
(* takes its snapshot; every connection of that snapshot is sent exactly  *)
(* one departure line containing K, and the departing connection none.    *)
C6_DepartureOnceToRemaining ==
    \A d \in Conns :
        /\ WritesTo(d, LAMBDA r : r.kind = "leave" /\ r.about = d) = 0
        /\ popped[d] > 0 =>
              \/ \E t \in Conns : /\ Running(t, "remove_client", "rm_close")
                                  /\ Top(t).sock = d /\ Top(t).nick # NoLine
              \/ departures[d] > 0
        /\ departures[d] > 0 =>
              \/ Announcing("leave", d)
              \/ \E b \in bcasts : b.kind = "leave" /\ b.about = d
        /\ Announcing("leave", d) => (closed[d] /\ d \notin KeySet(clients))
        /\ \A b \in bcasts : (b.kind = "leave" /\ b.about = d) =>
              /\ closed[d]
              /\ d \notin Range(b.snap)
              /\ \A c \in Conns :
                    LET n == WritesTo(c, LAMBDA r : r.kind = "leave" /\ r.about = d)
                        good == WritesTo(c, LAMBDA r : /\ r.kind = "leave" /\ r.about = d
                                                       /\ r.text = LeaveLine(nickname[d]))
                    IN  /\ n = good
                        /\ n <= 1
                        /\ c \notin Range(b.snap) => n = 0
                        /\ (c \in Range(b.snap) /\ ~Announcing("leave", d)) => n = 1

C6_Witness ==
    \E b \in bcasts :
        /\ b.kind = "leave"
        /\ ~Announcing("leave", b.about)
        /\ Len(b.snap) = 2

\* the session of t has handled a whisper whose target was found
WhisperDone(t) == pc[t] = "loop" /\ stack[t] = <<>> /\ target_sock[t] # None

(* C7: a whisper whose target nickname resolves to a registered           *)
(* connection causes exactly two writes: '(whisper) <sender>> <content>'  *)
(* to that connection and the confirmation to the sender.                  *)
C7_WhisperTwoWrites ==
    \A t \in Conns : WhisperDone(t) =>
        \E i \in 4..Len(text[t]) :
            LET name == SubSeq(text[t], 4, i - 1)
                content == SubSeq(text[t], i + 1, Len(text[t]))
                mine(r) == r.about = t /\ r.ln = LineNo(t)
            IN  /\ IsTrimOf(text[t], read[t][LineNo(t)])
                /\ SubSeq(text[t], 1, 3) = <<"/", "w", " ">>
                /\ text[t][i] = " "
                /\ \A k \in 1..Len(name) : name[k] # " "
                /\ nickname[target_sock[t]] = name
                /\ WritesTo(target_sock[t], LAMBDA r :
                       /\ mine(r) /\ r.kind = "whisper"
                       /\ r.text = <<"(whisper) ">> \o nickname[t] \o <<">", " ">>
                                       \o content \o <<"\n">>) = 1
                /\ WritesTo(t, LAMBDA r :
                       /\ mine(r) /\ r.kind = "wsent"
                       /\ r.text = <<"(whisper sent) ">> \o name \o <<" to", ">", " ">>
                                       \o content \o <<"\n">>) = 1
                /\ WritesTo(target_sock[t], LAMBDA r : mine(r))
                       = IF target_sock[t] = t THEN 2 ELSE 1
                /\ WritesTo(t, LAMBDA r : mine(r)) = IF target_sock[t] = t THEN 2 ELSE 1
                /\ \A c \in Conns \ {t, target_sock[t]} : WritesTo(c, LAMBDA r : mine(r)) = 0

C7_Witness ==
    \E t \in Conns :
        /\ WhisperDone(t)
        /\ Len(clients) = 3
        /\ target_sock[t] # t

\* the session of t has handled a whisper whose target was not found
NotFoundHandled(t) ==
    /\ pc[t] \notin {"w_lock", "w_find", "w_nf"}
    /\ target_sock[t] = None
    /\ Len(text[t]) >= 5
    /\ SubSeq(text[t], 1, 3) = <<"/", "w", " ">>
    /\ \E i \in 4..Len(text[t]) : text[t][i] = " "

(* C8, as claimed: a whisper to a nickname nobody holds sends one 'not    *)
(* found' line to the requester, nothing to anyone else, broadcasts       *)
(* nothing, and the requester's session goes on reading.                   *)
C8_NotFoundKeepsSession ==
    \A t \in Conns : NotFoundHandled(t) =>
        /\ WritesTo(t, LAMBDA r : r.about = t /\ r.ln = LineNo(t) /\ r.kind = "notfound") = 1
        /\ \A c \in Conns \ {t} : WritesTo(c, LAMBDA r : r.about = t /\ r.ln = LineNo(t)) = 0
        /\ \A b \in bcasts : ~(b.about = t /\ b.ln = LineNo(t))
        /\ pc[t] = "loop"
        /\ stack[t] = <<>>

(* C8, amended: a whisper to a nickname nobody holds writes exactly one   *)
(* 'not found' line, to the requester, and nothing else; if that write    *)
(* succeeds the session makes no broadcast and no removal and goes on     *)
(* reading; if it fails the session ends and is torn down, and the only   *)
(* broadcast of that line is the departure of the requester.               *)
C8_NotFoundOneLine ==
    \A t \in Conns : NotFoundHandled(t) =>
        \E i \in 4..Len(text[t]) :
            LET name == SubSeq(text[t], 4, i - 1)
                mine(r) == r.about = t /\ r.ln = LineNo(t) /\ r.kind # "leave"
                sentOk == WritesTo(t, LAMBDA r : mine(r) /\ r.ok) = 1
            IN  /\ text[t][i] = " "
                /\ \A k \in 1..Len(name) : name[k] # " "
                /\ WritesTo(t, LAMBDA r :
                       /\ mine(r) /\ r.kind = "notfound"
                       /\ r.text = <<"[SYSTEM] target [">> \o name
                                       \o <<"] not found.", "\n">>) = 1
                /\ WritesTo(t, LAMBDA r : mine(r)) = 1
                /\ \A c \in Conns \ {t} : WritesTo(c, LAMBDA r : mine(r)) = 0
                /\ \A b \in bcasts : (b.about = t /\ b.ln = LineNo(t)) => b.kind = "leave"
                /\ sentOk => /\ pc[t] = "loop"
                             /\ stack[t] = <<>>
                             /\ \A b \in bcasts : ~(b.about = t /\ b.ln = LineNo(t))
                /\ ~sentOk => pc[t] = "done"

C8_Witness ==
    \E t \in Conns :
        /\ NotFoundHandled(t)
        /\ pc[t] = "loop"
        /\ Len(clients) = 3

\* the first line of t was empty or whitespace only
Blank(t) == nickname[t] # NoLine /\ \A k \in 1..Len(nickname[t]) : nickname[t][k] \in WS

(* C9: a connection whose first line is empty or blank is sent exactly    *)
(* one refusal line and closed; it never enters the registry and no join  *)
(* or departure about it is sent to anyone.                                *)
C9_EmptyNicknameRefused ==
    \A t \in Conns : (pc[t] \notin {"idle", "recv_nick"} /\ Blank(t)) =>
        /\ stored[t] = 0
        /\ t \notin KeySet(clients)
        /\ departures[t] = 0
        /\ \A b \in bcasts : b.about # t /\ t \notin Range(b.snap)
        /\ ~Announcing("join", t) /\ ~Announcing("leave", t)
        /\ \A c \in Conns : WritesTo(c, LAMBDA r : r.about = t /\ r.kind # "refuse") = 0
        /\ WritesTo(t, LAMBDA r : TRUE) = IF pc[t] = "refuse" THEN 0 ELSE 1
        /\ WritesTo(t, LAMBDA r : r.kind = "refuse"
                                  /\ r.text = <<"[SYSTEM] nickname is empty.", "\n">>)
              = IF pc[t] = "refuse" THEN 0 ELSE 1
        /\ Ended(t) => closed[t]

C9_Witness ==
    \E t \in Conns :
        /\ Blank(t)
        /\ Ended(t)
        /\ Len(clients) = 2

\* the calls remove_client(d) that are past their pop, with what it returned
PastPop(d) ==
    {<<t, i>> \in Conns \X (1..(2 * Cardinality(Conns) + 1)) :
        /\ i <= Len(stack[t])
        /\ stack[t][i].fn = "remove_client"
        /\ stack[t][i].sock = d
        /\ stack[t][i].pc \in {"rm_close", "rm_bcast"}}

(* C10: however often and from whichever threads remove_client runs for   *)
(* one connection, only one run pops its entry, the others get no         *)
(* nickname and leave the registry as it is, and its departure is         *)
(* broadcast at most once.                                                 *)
C10_TeardownIdempotent ==
    \A d \in Conns :
        /\ popped[d] <= 1
        /\ departures[d] <= popped[d]
        /\ Cardinality({x \in PastPop(d) : stack[x[1]][x[2]].nick # NoLine}) <= 1
        /\ \A c \in Conns : WritesTo(c, LAMBDA r : r.kind = "leave" /\ r.about = d) <= 1
        /\ d \notin KeySet(clients) =>
              /\ Popped(clients, d) = NoLine
              /\ Without(clients, d) = clients

C10_Witness ==
    \E d \in Conns : \E t \in Conns \ {d} :
        /\ Running(t, "remove_client", "rm_close") /\ Top(t).sock = d
        /\ Running(d, "remove_client", "rm_close") /\ Top(d).sock = d
        /\ popped[d] = 1

(* ===================== properties of the locking ======================= *)
\* thread t is at a statement that reads or changes the clients map:
\* lines 45, 79-82, 14 and 26
Accessing(t) ==
    \/ pc[t] \in {"reg_store", "w_find"}
    \/ Running(t, "broadcast", "bc_snap")
    \/ Running(t, "remove_client", "rm_pop")

\* thread t waits for clients_lock
Waiting(t) ==
    \/ pc[t] \in {"reg_lock", "w_lock"}
    \/ Running(t, "broadcast", "bc_lock")
    \/ Running(t, "remove_client", "rm_lock")

(* C11: a thread that is at a read, an iteration, an insertion or a        *)
(* removal on the clients map holds clients_lock, so at most one thread is *)
(* at such a statement at any time, and the map changes only in a step of  *)
(* the thread that holds the lock.                                         *)
C11_MapAccessUnderLock ==
    [][ /\ \A t \in Conns : Accessing(t) => clients_lock = t
        /\ \A t \in Conns : Accessing(t)' => clients_lock' = t
        /\ \A t, u \in Conns : Accessing(t)' /\ Accessing(u)' => t = u
        /\ clients' # clients =>
              \E t \in Conns : clients_lock = t /\ Accessing(t) /\ ~Accessing(t)' ]_vars

\* a thread changes the map under the lock while two others wait for it
C11_Witness ==
    \E t, u, v \in Conns :
        /\ t # u /\ t # v /\ u # v
        /\ clients_lock = t
        /\ Running(t, "remove_client", "rm_pop") /\ Top(t).sock \in KeySet(clients)
        /\ Waiting(u) /\ Waiting(v)

\* the next statement of thread t is a sock.sendall: lines 39, 47, 65, 84,
\* 89 and 17
Sending(t) ==
    \/ pc[t] \in {"refuse", "welcome", "usage", "w_nf", "w_tgt", "w_snd"}
    \/ Running(t, "broadcast", "bc_send")

\* thread t takes the step
Moves(t) == pc'[t] # pc[t] \/ stack'[t] # stack[t]

(* C12: no thread writes to a socket while it holds clients_lock: a thread *)
(* whose next statement is a send does not hold the lock, every write is   *)
(* made by such a thread, and the holder of the lock is at a statement on  *)
(* the map, not at a send, so a waiting thread gets the lock whatever the  *)
(* sends of the others do.                                                 *)
C12_NoSendUnderLock ==
    [][ /\ \A t \in Conns : Sending(t) => clients_lock # t /\ ~Accessing(t)
        /\ \A t \in Conns : Sending(t)' => clients_lock' # t
        /\ \A t \in Conns : clients_lock' = t => Accessing(t)'
        /\ wire' # wire =>
              \E t \in Conns : Sending(t) /\ Moves(t) /\ clients_lock # t /\ clients_lock' # t
        /\ \A t, u \in Conns :
              Sending(t) /\ Waiting(u) /\ clients_lock = None => ENABLED Step(u) ]_vars

\* a broadcast is about to send to a peer that is gone while another thread
\* holds the lock and works on the map
C12_Witness ==
    \E t, u \in Conns :
        /\ t # u
        /\ Running(t, "broadcast", "bc_send") /\ peerDown[Head(Top(t).targets)]
        /\ clients_lock = u /\ Accessing(u)

(* ================== properties of a session's life ===================== *)
\* the nickname of a successful registration: not blank
Registrable(n) == n # NoLine /\ Strip(n) = n /\ n # <<>>

(* C13: every registry entry is that of a session that has registered and  *)
(* whose teardown has not run (no pop of it yet, socket open, thread not   *)
(* ended); an entry is inserted only by its session's registration, once,  *)
(* is removed only by a pop of remove_client, once, and never comes back;  *)
(* a session that has ended and had registered has had its entry removed.  *)
C13_EntryOnceInOnceOut ==
    [][ \A s \in Conns :
          /\ s \in KeySet(clients)' =>
                /\ stored'[s] = 1 /\ popped'[s] = 0
                /\ ~closed'[s] /\ ~Ended(s)' /\ PastPop(s)' = {}
                /\ Registrable(nickname'[s])
                /\ Cardinality({i \in 1..Len(clients') : clients'[i].sock = s}) = 1
          /\ s \notin KeySet(clients) /\ s \in KeySet(clients)' =>
                /\ pc[s] = "reg_store" /\ pc'[s] = "welcome"
                /\ stored[s] = 0 /\ popped[s] = 0
          /\ s \in KeySet(clients) /\ s \notin KeySet(clients)' =>
                /\ popped'[s] = 1
                /\ \E t \in Conns : Running(t, "remove_client", "rm_pop") /\ Top(t).sock = s
                                      /\ Moves(t)
          /\ stored'[s] <= 1 /\ popped'[s] <= stored'[s]
          /\ Ended(s)' => s \notin KeySet(clients)' /\ popped'[s] = stored'[s] ]_vars

\* a session that registered has ended with its entry removed once, while
\* another entry is still in the registry
C13_Witness ==
    \E s, u \in Conns :
        /\ s # u
        /\ Ended(s) /\ stored[s] = 1 /\ popped[s] = 1
        /\ u \in KeySet(clients) /\ pc[u] = "loop"

\* the teardown of the session of t is complete
TornDown(t) ==
    /\ Ended(t)
    /\ t \notin KeySet(clients)
    /\ closed[t]
    /\ stored[t] = 1 => \E b \in bcasts : b.kind = "leave" /\ b.about = t

\* a write of the given kind to t failed
FailedWrite(t, kinds) ==
    \E r \in BagToSet(wire[t]) : r.kind \in kinds /\ r.about = t /\ ~r.ok

(* C14: once the loop of a session has ended, by a quit, by the end of its *)
(* input or by an exception, its teardown eventually is complete: the      *)
(* thread has ended, the connection is not in the registry, its socket is  *)
(* closed and, if it had registered, its departure has been broadcast.     *)
C14_TeardownAlwaysRuns ==
    \A t \in Conns : (pc[t] = "done") ~> TornDown(t)

\* a registered session that ended by a failed write to its own socket in
\* the loop is torn down
C14_Witness ==
    \E t \in Conns :
        /\ TornDown(t) /\ stored[t] = 1
        /\ FailedWrite(t, {"usage", "notfound"})

(* ================== properties of the error handling =================== *)
\* the loop of the session of s has ended by what it read from its own
\* connection: the quit command, or no line (end of input, a failed read)
OwnReadEnds(s) == pc[s] = "done" /\ (text[s] = QUIT \/ text[s] = NoLine)

(* C15: a failure on one connection tears down the session of that         *)
(* connection only: a registered session loses its entry only when its own *)
(* peer is gone or its own loop has ended by what it read, and its loop    *)
(* ends only by a failed write to its own socket or by its own read; and   *)
(* whatever has failed, a connection that comes in is accepted.            *)
C15_FailureStaysLocal ==
    [][ /\ \A s \in Conns :
              /\ s \in KeySet(clients) /\ s \notin KeySet(clients)' =>
                    peerDown[s] \/ OwnReadEnds(s)
              /\ stored[s] = 1 /\ pc[s] # "done" /\ pc'[s] = "done" =>
                    \/ peerDown[s] /\ Sending(s) /\ Moves(s)
                    \/ OwnReadEnds(s)' /\ pc[s] = "loop" /\ Moves(s)
        /\ \A t \in Conns \ accepted :
              Load < Cardinality(Conns) => ENABLED Accept(t) ]_vars

\* a send of the session of u to s failed and s was torn down for it, and
\* u is registered and back at reading its next line
C15_Witness ==
    \E s, u \in Conns :
        /\ s # u
        /\ peerDown[s] /\ popped[s] = 1 /\ closed[s]
        /\ \E r \in BagToSet(wire[s]) : r.about = u /\ ~r.ok
        /\ u \in KeySet(clients) /\ pc[u] = "loop" /\ stack[u] = <<>>

(* ======================= properties of the order ======================= *)
\* the writes the step makes to R
NewWrites(R) == {r \in BagToSet(wire'[R]) : CopiesIn(r, wire'[R]) > CopiesIn(r, wire[R])}

(* C16: the chat lines and whispers of a sender S are written to a         *)
(* receiver R in the order in which the session of S read them: every such *)
(* write is of the line S read last, and no line S read later has been     *)
(* written to R before it.                                                 *)
C16_PerSenderOrder ==
    [][ \A S, R \in Conns : \A r \in NewWrites(R) :
          r.about = S /\ r.kind \in {"chat", "whisper"} =>
              /\ r.ln = Len(read[S])
              /\ \A q \in BagToSet(wire[R]) :
                    q.about = S /\ q.kind \in {"chat", "whisper"} => q.ln <= r.ln ]_vars

\* a receiver has been sent the first line of a sender, a chat line, and then
\* its second, a whisper
C16_Witness ==
    \E S, R \in Conns :
        /\ S # R
        /\ Len(read[S]) = 2
        /\ \E q, r \in BagToSet(wire[R]) :
              /\ q.about = S /\ q.kind = "chat" /\ q.ln = 1
              /\ r.about = S /\ r.kind = "whisper" /\ r.ln = 2

(* ====================== properties of recv_line ======================== *)
\* the complete lines of a byte string, without their delimiters
RECURSIVE LinesOf(_)
LinesOf(bytes) ==
    IF FirstNewline(bytes) = 0 THEN <<>>
    ELSE <<SubSeq(bytes, 1, FirstNewline(bytes) - 1)>>
         \o LinesOf(SubSeq(bytes, FirstNewline(bytes) + 1, Len(bytes)))

(* C17: recv_line keeps the bytes after the returned line's delimiter for  *)
(* the next call: the lines its successive calls return are the complete   *)
(* lines of the bytes received, in order, none left out.                   *)
C17_NoLineLost ==
    \A i \in 1..Len(got) :
        got[i].out # NoLine =>
            /\ i <= Len(LinesOf(taken))
            /\ got[i].raw = LinesOf(taken)[i]

(* C18: a line whose bytes are not valid UTF-8 is a read failure:          *)
(* recv_line returns None for it.                                          *)
C18_UndecodableIsReadFailure ==
    \A i \in 1..Len(got) :
        (\E k \in 1..Len(got[i].raw) : got[i].raw[k] = BAD) => got[i].out = NoLine

(* ================= properties of the whisper command =================== *)
\* the line the loop of t has read last starts with the whisper prefix
WhisperLine(t) == text[t] # NoLine /\ StartsWith(text[t], WPREFIX)

\* ... and has no space after the prefix: fewer than three fields
TwoFields(t) == WhisperLine(t) /\ \A i \in 4..Len(text[t]) : text[t][i] # " "

\* ... and its usage error has been dealt with
UsageHandled(t) == TwoFields(t) /\ pc[t] # "usage"

\* a whisper line is cut at its first two spaces, the content keeping its own
FieldsAtFirstTwoSpaces(t) ==
    (WhisperLine(t) /\ ~TwoFields(t)) =>
        \E i \in 4..Len(text[t]) :
            /\ text[t][i] = " "
            /\ \A k \in 4..(i - 1) : text[t][k] # " "
            /\ Parts(t) = << <<"/", "w">>, SubSeq(text[t], 4, i - 1),
                             SubSeq(text[t], i + 1, Len(text[t])) >>
            /\ pc[t] # "usage"
            /\ WritesTo(t, LAMBDA r : r.kind = "usage" /\ r.ln = LineNo(t)) = 0

(* C19, as claimed: a whisper line is split at its first two spaces only;  *)
(* with fewer than three fields the sender alone gets one usage line,      *)
(* nothing goes to anyone else, and the session stays registered and goes  *)
(* on reading.                                                             *)
C19_UsageKeepsSession ==
    \A t \in Conns :
        /\ FieldsAtFirstTwoSpaces(t)
        /\ UsageHandled(t) =>
              /\ WritesTo(t, LAMBDA r : r.about = t /\ r.ln = LineNo(t) /\ r.kind = "usage") = 1
              /\ \A c \in Conns \ {t} : WritesTo(c, LAMBDA r : r.about = t /\ r.ln = LineNo(t)) = 0
              /\ \A b \in bcasts : ~(b.about = t /\ b.ln = LineNo(t))
              /\ pc[t] = "loop"
              /\ stack[t] = <<>>

(* C19, amended: a whisper line is split at its first two spaces only;     *)
(* with fewer than three fields exactly one usage line is written, to the  *)
(* sender, and nothing else; if that write succeeds the session makes no   *)
(* broadcast and no removal and goes on reading; if it fails the session   *)
(* ends and is torn down, the departure of the sender being the only       *)
(* broadcast of that line.                                                 *)
C19_UsageOneLine ==
    \A t \in Conns :
        /\ FieldsAtFirstTwoSpaces(t)
        /\ UsageHandled(t) =>
              LET mine(r) == r.about = t /\ r.ln = LineNo(t) /\ r.kind # "leave"
                  sentOk == WritesTo(t, LAMBDA r : mine(r) /\ r.ok) = 1
              IN  /\ WritesTo(t, LAMBDA r : mine(r) /\ r.kind = "usage"
                                            /\ r.text = Data(UsageMsg)) = 1
                  /\ WritesTo(t, LAMBDA r : mine(r)) = 1
                  /\ \A c \in Conns \ {t} : WritesTo(c, LAMBDA r : mine(r)) = 0
                  /\ \A b \in bcasts : (b.about = t /\ b.ln = LineNo(t)) => b.kind = "leave"
                  /\ sentOk => /\ pc[t] = "loop"
                               /\ stack[t] = <<>>
                               /\ \A b \in bcasts : ~(b.about = t /\ b.ln = LineNo(t))
                  /\ ~sentOk => pc[t] = "done"

\* the usage line has gone out to the sender of '/w b', who reads on, with
\* two others registered
C19_Witness ==
    \E t \in Conns :
        /\ UsageHandled(t)
        /\ pc[t] = "loop"
        /\ Len(clients) = 3

(* C20: in a whisper whose target was found, the send to the target and    *)
(* the send to the sender are both made, each whatever the outcome of the  *)
(* other; neither removes a registry entry, closes a socket or ends the    *)
(* sender's session, which goes back to reading.                           *)
C20_WhisperSendsIndependent ==
    [][ \A t \in Conns :
          /\ pc[t] = "w_tgt" /\ Moves(t) =>
                /\ \E r \in NewWrites(target_sock[t]) : r.kind = "whisper" /\ r.about = t
                /\ pc'[t] = "w_snd" /\ stack'[t] = <<>>
                /\ clients' = clients /\ closed' = closed
          /\ pc[t] = "w_snd" /\ Moves(t) =>
                /\ \E q \in BagToSet(wire[target_sock[t]]) :
                       q.kind = "whisper" /\ q.about = t /\ q.ln = LineNo(t)
                /\ \E r \in NewWrites(t) : r.kind = "wsent" /\ r.about = t
                /\ pc'[t] = "loop" /\ stack'[t] = <<>>
                /\ clients' = clients /\ closed' = closed ]_vars

\* the send to the target failed, the confirmation went out to the sender,
\* who is registered and reads on, and the target is still in the registry
C20_Witness ==
    \E t \in Conns :
        /\ WhisperDone(t) /\ target_sock[t] # t
        /\ \E q \in BagToSet(wire[target_sock[t]]) :
               q.kind = "whisper" /\ q.about = t /\ ~q.ok
        /\ \E r \in BagToSet(wire[t]) : r.kind = "wsent" /\ r.about = t /\ r.ok
        /\ {t, target_sock[t]} \subseteq KeySet(clients)

(* ================== properties of duplicate nicknames ================== *)
\* the places of the registry that hold the nickname `name`
Holders(name) == {i \in 1..Len(clients) : clients[i].name = name}

(* C21: registration takes a nickname whoever holds it already: a first    *)
(* line that is not blank always goes on to the store, and the store adds  *)
(* the entry at the end of the registry; a whisper to a nickname that      *)
(* several entries hold resolves to the first of them in the registry's    *)
(* order, and its line is written to that connection and to no other.      *)
C21_DuplicateNickFirstMatch ==
    [][ \A t \in Conns :
          /\ pc[t] = "recv_nick" /\ Moves(t) /\ Registrable(nickname'[t]) =>
                pc'[t] = "reg_lock"
          /\ pc[t] = "reg_store" /\ Moves(t) =>
                clients' = Append(clients, [sock |-> t, name |-> nickname[t]])
          /\ pc[t] = "w_find" /\ Moves(t) =>
                LET at == Holders(Parts(t)[2]) IN
                IF at = {} THEN target_sock'[t] = None
                ELSE \E i \in at : /\ \A j \in at : i <= j
                                    /\ target_sock'[t] = clients[i].sock
          /\ pc[t] = "w_tgt" /\ Moves(t) =>
                /\ \E r \in NewWrites(target_sock[t]) : r.kind = "whisper" /\ r.about = t
                /\ \A c \in Conns \ {target_sock[t]} : wire'[c] = wire[c]
          /\ pc[t] = "w_snd" /\ Moves(t) =>
                \A c \in Conns \ {t} : wire'[c] = wire[c] ]_vars

\* C and B are registered under one nickname, C before B; the whisper of A
\* to that nickname is done: it went to C, and B has no line of it
C21_Witness ==
    /\ Len(clients) = 3
    /\ \E i, j \in 1..Len(clients) :
          /\ i < j
          /\ clients[i].sock = "C" /\ clients[j].sock = "B"
          /\ clients[i].name = clients[j].name
    /\ WhisperDone("A") /\ target_sock["A"] = "C"
    /\ WritesTo("C", LAMBDA r : r.kind = "whisper" /\ r.about = "A") = 1
    /\ WritesTo("B", LAMBDA r : r.kind = "whisper" /\ r.about = "A") = 0

(* ===================== properties of the quit command ================== *)
\* the last line the loop of t has read is the quit command '/종료', with or
\* without blanks around it
QuitRead(t) ==
    /\ LineNo(t) >= 1
    /\ IsTrimOf(<<"/", "jong", "ryo">>, read[t][LineNo(t)])

(* C22: the quit command is not broadcast as chat: nothing but departure   *)
(* lines is written for that line; the session leaves its loop at once,    *)
(* and when its thread has ended its entry is removed, its socket closed   *)
(* and its departure announced: once that broadcast is through, every      *)
(* connection registered at its snapshot has been sent exactly one         *)
(* departure line with the nickname.                                       *)
C22_QuitLeavesAndAnnounces ==
    \A t \in Conns : QuitRead(t) =>
        /\ pc[t] = "done"
        /\ \A c \in Conns :
              WritesTo(c, LAMBDA r : r.about = t /\ r.ln >= LineNo(t) /\ r.kind # "leave") = 0
        /\ \A b \in bcasts : (b.about = t /\ b.ln >= LineNo(t)) => b.kind = "leave"
        /\ Ended(t) =>
              /\ t \notin KeySet(clients)
              /\ closed[t]
              /\ popped[t] = 1
              /\ \/ departures[t] = 1
                 \/ \E u \in Conns \ {t} : /\ Running(u, "remove_client", "rm_close")
                                            /\ Top(u).sock = t /\ Top(u).nick = nickname[t]
              /\ (departures[t] = 1 /\ ~Announcing("leave", t)) =>
                    \E b \in bcasts :
                        /\ b.kind = "leave" /\ b.about = t
                        /\ \A c \in Range(b.snap) :
                              WritesTo(c, LAMBDA r : /\ r.kind = "leave" /\ r.about = t
                                                     /\ r.text = LeaveLine(nickname[t])) = 1

\* A has quit and its thread has ended; the two others, still registered,
\* have each been sent its departure
C22_Witness ==
    \E t \in Conns :
        /\ QuitRead(t) /\ Ended(t)
        /\ Len(clients) = 2
        /\ \A c \in KeySet(clients) :
              WritesTo(c, LAMBDA r : r.kind = "leave" /\ r.about = t /\ r.ok) = 1

(* ================== properties of a failed broadcast send ============== *)
\* the writes of the broadcast b to the socket s
OfBroadcast(b, s, oks) ==
    WritesTo(s, LAMBDA r : r.kind = b.kind /\ r.about = b.about /\ r.ln = b.ln /\ r.ok \in oks)

\* the departure of s has been announced or is about to be, by the thread
\* whose pop returned its nickname
DepartureDue(s) ==
    \/ departures[s] = 1
    \/ \E u \in Conns : /\ Running(u, "remove_client", "rm_close")
                          /\ Top(u).sock = s /\ Top(u).nick # NoLine

(* C23: a send of a broadcast that fails is not made again: no target is   *)
(* ever sent the line twice; a target whose send failed is removed from    *)
(* the registry and closed and its departure announced before the loop     *)
(* goes on; and when the broadcast is through, every target of its         *)
(* snapshot has been sent the line exactly once, whichever sends failed.   *)
C23_FailedSendCleansUpAndGoesOn ==
    \A b \in bcasts : \A s \in Conns :
        /\ OfBroadcast(b, s, BOOLEAN) <= 1
        /\ s \notin Range(b.snap) => OfBroadcast(b, s, BOOLEAN) = 0
        /\ (s \in Range(b.snap) /\ ~InProgress(b.kind, b.about, b.ln)) =>
              OfBroadcast(b, s, BOOLEAN) = 1
        /\ OfBroadcast(b, s, {FALSE}) = 1 =>
              \/ \E t \in Conns : \E i \in 1..Len(stack[t]) :
                     /\ stack[t][i].fn = "remove_client" /\ stack[t][i].sock = s
                     /\ stack[t][i].pc \in {"rm_lock", "rm_pop"}
                     /\ i > 1 /\ stack[t][i - 1].fn = "broadcast"
                     /\ stack[t][i - 1].kind = b.kind /\ stack[t][i - 1].about = b.about
              \/ /\ s \notin KeySet(clients)
                 /\ popped[s] = 1
                 /\ closed[s] \/ \E t \in Conns : /\ Running(t, "remove_client", "rm_close")
                                                    /\ Top(t).sock = s
                 /\ DepartureDue(s)

\* a chat line went to two targets; the send to the first failed, that
\* target is removed, closed and its departure announced, and the second
\* target has been sent the chat line
C23_Witness ==
    \E b \in bcasts :
        /\ b.kind = "chat" /\ Len(b.snap) = 2
        /\ ~InProgress(b.kind, b.about, b.ln)
        /\ OfBroadcast(b, b.snap[1], {FALSE}) = 1
        /\ OfBroadcast(b, b.snap[2], {TRUE}) = 1
        /\ b.snap[1] \notin KeySet(clients) /\ closed[b.snap[1]]
        /\ departures[b.snap[1]] = 1

(* ====================== properties of a blank line ===================== *)
\* the step is the read, by the loop of t, of a line that is empty or all
\* whitespace
ReadsBlank(t) ==
    /\ Len(read'[t]) = Len(read[t]) + 1
    /\ \A k \in 1..Len(read'[t][Len(read'[t])]) : read'[t][Len(read'[t])][k] \in WS

(* C24: a line that is empty after trimming changes nothing: in the step   *)
(* that reads it the registry, the lock, the sockets and everything        *)
(* written or broadcast so far stay as they are, no call is made, and the  *)
(* session is at the read of its next line.                                *)
C24_BlankLineIsNoOp ==
    [][ \A t \in Conns : ReadsBlank(t) =>
          /\ UNCHANGED <<shared, history>>
          /\ t \in KeySet(clients) => t \in KeySet(clients')
          /\ pc'[t] = "loop" /\ stack'[t] = <<>>
          /\ \A u \in Conns \ {t} : pc'[u] = pc[u] /\ stack'[u] = stack[u] ]_vars

\* a registered session has read a blank line and then a chat line, which
\* it is broadcasting
C24_Witness ==
    \E t \in Conns :
        /\ Len(read[t]) = 2
        /\ read[t][1] = <<" ">>
        /\ t \in KeySet(clients)
        /\ InProgress("chat", t, 2)
        /\ \A c \in Conns : WritesTo(c, LAMBDA r : r.about = t /\ r.ln = 1) = 0

(* ================== properties of the lock's release =================== *)
(* C25: every acquisition of clients_lock is released by the next step of  *)
(* the thread that made it, a step that waits for nothing; a thread that   *)
(* calls broadcast or remove_client, or waits for the lock, does not hold  *)
(* it, also in the calls nested after a failed send; so a thread that      *)
(* waits for the lock gets it in the end.                                  *)
C25_NoWaitForever ==
    /\ [][ \A t \in Conns :
             /\ clients_lock = t => Accessing(t) /\ ~Waiting(t) /\ ENABLED Progress(t)
             /\ clients_lock = t /\ Moves(t) => clients_lock' = None
             /\ Waiting(t) => clients_lock # t
             /\ Waiting(t)' => clients_lock' # t
             /\ Len(stack'[t]) > Len(stack[t]) => clients_lock # t /\ clients_lock' # t
             /\ Waiting(t) /\ clients_lock = None => ENABLED Progress(t) ]_vars
    /\ \A t \in Conns : Waiting(t) ~> ~Waiting(t)

\* a thread waits for the lock in a remove_client nested in a departure
\* broadcast nested in a remove_client, while another thread holds the lock
C25_Witness ==
    \E t, u \in Conns :
        /\ t # u
        /\ clients_lock = u
        /\ Running(t, "remove_client", "rm_lock")
        /\ Len(stack[t]) >= 3


(* ============== properties of the nesting of broadcasts ================ *)
\* the calls of broadcast that the thread of t is in, outermost first
BcCalls(t) == SelectSeq(stack[t], LAMBDA f : f.fn = "broadcast")

\* the departure broadcasts nested in the outermost broadcast of t
Nested(t) == Len(BcCalls(t)) - 1

\* at most this many connections were registered when the broadcast b, made
\* by the call f, took its snapshot: its targets, and the excluded socket
RegisteredAt(b, f) == Len(b.snap) + IF f.exclude # None THEN 1 ELSE 0

(* C26 as stated: the departure broadcasts nested in a broadcast are never *)
(* more than the connections registered when that broadcast began.         *)
C26_DepthWithinRegistered ==
    \A t \in Conns : \A b \in bcasts :
        (/\ BcCalls(t) # <<>>
         /\ b.kind = BcCalls(t)[1].kind /\ b.about = BcCalls(t)[1].about
         /\ b.ln = BcCalls(t)[1].ln) =>
            Nested(t) <= RegisteredAt(b, BcCalls(t)[1])

(* C26: the recursion broadcast -> remove_client -> broadcast is bounded   *)
(* by the entries removed: a call of broadcast made inside another call is *)
(* a departure broadcast made by a remove_client whose pop returned the    *)
(* nickname of its socket, which is out of the registry; the nested        *)
(* departures of one thread are about different sockets; so their number   *)
(* is never more than the number of entries removed so far, nor than the   *)
(* number of connections that have registered so far.                      *)
C26_DepthWithinRemoved ==
    \A t \in Conns :
        /\ \A i \in 2..Len(stack[t]) :
              stack[t][i].fn = "broadcast" =>
                 /\ stack[t][i].kind = "leave"
                 /\ stack[t][i - 1].fn = "remove_client"
                 /\ stack[t][i - 1].pc = "rm_bcast"
                 /\ stack[t][i - 1].sock = stack[t][i].about
                 /\ stack[t][i - 1].nick \notin {NoLine, <<>>}
                 /\ stack[t][i].about \notin KeySet(clients)
                 /\ popped[stack[t][i].about] = 1
        /\ \A i, j \in 1..Len(stack[t]) :
              (/\ i < j
               /\ stack[t][i].fn = "broadcast" /\ stack[t][i].kind = "leave"
               /\ stack[t][j].fn = "broadcast" /\ stack[t][j].kind = "leave") =>
                  stack[t][i].about # stack[t][j].about
        /\ Nested(t) <= SumOver(popped, Conns)
        /\ Nested(t) <= SumOver(stored, Conns)

\* a broadcast that began with one connection registered has two departure
\* broadcasts nested in it: the connection it sent to, and one that
\* registered after its snapshot
C26_Witness ==
    \E t \in Conns : \E b \in bcasts :
        /\ BcCalls(t) # <<>>
        /\ b.kind = BcCalls(t)[1].kind /\ b.about = BcCalls(t)[1].about
        /\ b.ln = BcCalls(t)[1].ln
        /\ RegisteredAt(b, BcCalls(t)[1]) = 1
        /\ Nested(t) = 2
        /\ SumOver(popped, Conns) = 2


(* =============== properties of the departure of a session ============== *)
\* the join broadcast of s has been called: it is running in the thread of
\* s, or its snapshot has been taken
JoinBegun(s) ==
    \/ \E b \in bcasts : b.kind = "join" /\ b.about = s
    \/ \E i \in 1..Len(stack[s]) :
          /\ stack[s][i].fn = "broadcast"
          /\ stack[s][i].kind = "join" /\ stack[s][i].about = s

\* the welcome line of s was written and the write failed
WelcomeFailed(s) == WritesTo(s, LAMBDA r : r.kind = "welcome" /\ ~r.ok) = 1

(* C27 as stated: the departure of a session is broadcast only if its join *)
(* announcement was broadcast before.                                      *)
C27_DepartureOnlyAfterJoin ==
    \A s \in Conns : departures[s] >= 1 => JoinBegun(s)

(* C27: the departure of a session is broadcast only if the session had    *)
(* registered: its entry was stored, and popped by the remove_client that  *)
(* announces. The join need not have been broadcast: a session whose       *)
(* welcome line could not be sent never calls the join broadcast, and once *)
(* it has ended its departure has been announced, or is about to be by the *)
(* thread whose pop returned its nickname.                                 *)
C27_DepartureOnlyIfRegistered ==
    \A s \in Conns :
        /\ departures[s] >= 1 =>
              /\ stored[s] = 1 /\ popped[s] = 1
              /\ s \notin KeySet(clients)
              /\ departures[s] = 1
        /\ WelcomeFailed(s) =>
              /\ stored[s] = 1
              /\ ~JoinBegun(s)
              /\ Ended(s) => DepartureDue(s)

\* the welcome line of a registered session could not be sent; the session
\* has ended, no join was announced and its departure has been
C27_Witness ==
    \E s \in Conns :
        /\ WelcomeFailed(s) /\ Ended(s)
        /\ ~JoinBegun(s)
        /\ departures[s] = 1
        /\ \E b \in bcasts : b.kind = "leave" /\ b.about = s


(* ========== properties of the lines of a session that has left ========= *)
\* a chat line or a whisper of the session of S
FromSession(r, S) == r.kind \in {"chat", "whisper"} /\ r.about = S

\* the departure lines of S that R has been sent and has got
DeparturesGot(S, R) == WritesTo(R, LAMBDA r : r.kind = "leave" /\ r.about = S /\ r.ok)

(* C28 as stated: once the departure of a session has been written to a    *)
(* receiver, no chat line or whisper of that session is written to that    *)
(* receiver.                                                               *)
C28_NothingAfterDeparture ==
    [][\A S, R \in Conns : \A r \in NewWrites(R) :
          (FromSession(r, S) /\ r.ok) => DeparturesGot(S, R) = 0]_vars

(* C28: once the departure of a session has been announced, the session    *)
(* reads no further line: a line is read only while the socket is open,    *)
(* no departure of the session has been announced and none has been        *)
(* written to anyone; so the chat lines and whispers of the session that   *)
(* are written are of the line its thread has in hand, and after its       *)
(* departure only of the line it had in hand when it was removed.          *)
C28_NoLineReadAfterDeparture ==
    [][\A S \in Conns :
          /\ read'[S] # read[S] =>
                /\ ~closed[S] /\ departures[S] = 0
                /\ \A R \in Conns : WritesTo(R, LAMBDA r : r.kind = "leave" /\ r.about = S) = 0
          /\ \A R \in Conns : \A r \in NewWrites(R) :
                FromSession(r, S) =>
                   /\ r.ln = LineNo(S) /\ r.ln >= 1
                   /\ read'[S] = read[S]]_vars

\* the session of S was removed, and its departure announced and written to
\* R, by another thread while its own thread is still in the broadcast of
\* its chat line, whose next target is R
C28_Witness ==
    \E S, R \in Conns :
        /\ S # R
        /\ departures[S] = 1 /\ DeparturesGot(S, R) = 1
        /\ Len(stack[S]) = 1
        /\ Running(S, "broadcast", "bc_send")
        /\ Top(S).kind = "chat" /\ Top(S).about = S
        /\ Head(Top(S).targets) = R
        /\ SendOk(R)


(* ================== properties of the welcome line ===================== *)
\* the welcome lines written to R so far
WelcomesTo(R) == WritesTo(R, LAMBDA r : r.kind = "welcome")

\* a chat line, an announcement or a whisper about another session than R
FromAnother(r, R) == r.kind \in {"chat", "join", "leave", "whisper"} /\ r.about # R

(* C29 as stated: the welcome line is the first line a registered          *)
(* connection receives: no chat line, join or departure announcement or    *)
(* whisper of another session is written to it before its welcome line.    *)
C29_WelcomeFirst ==
    [][\A R \in Conns : \A r \in NewWrites(R) :
          (FromAnother(r, R) /\ r.ok) => WelcomesTo(R) >= 1]_vars

(* C29: the welcome line is the first line the session of a connection     *)
(* writes to it once it is registered, and nothing is written to a         *)
(* connection that is not registered but its refusal; a line written to a  *)
(* connection before its welcome line is written by the thread of another  *)
(* session, about another session, after the entry of the connection was  *)
(* stored and while its own thread is about to send the welcome line.      *)
C29_WelcomeFirstOfOwn ==
    [][\A R \in Conns : \A r \in NewWrites(R) :
          WelcomesTo(R) = 0 =>
             \/ r.kind = "welcome" /\ stored[R] = 1 /\ pc[R] = "welcome" /\ Moves(R)
             \/ r.kind = "refuse" /\ stored[R] = 0 /\ Moves(R)
             \/ /\ FromAnother(r, R)
                /\ stored[R] = 1 /\ pc[R] = "welcome" /\ ~Moves(R)]_vars

\* a registered connection that has not been sent its welcome line yet has
\* got a line of another session
C29_Witness ==
    \E R \in Conns :
        /\ stored[R] = 1 /\ pc[R] = "welcome"
        /\ WelcomesTo(R) = 0
        /\ WritesTo(R, LAMBDA r : FromAnother(r, R) /\ r.ok) >= 1


(* ============ properties of a connection not yet registered ============ *)
\* s has been accepted and has not registered a nickname: it awaits its
\* first line, or was refused
Unregistered(s) == s \in accepted /\ stored[s] = 0

(* C30: a connection that has been accepted and has not registered is never *)
(* a target: it is in no snapshot of a broadcast and in no call's remaining *)
(* targets, no whisper has found it, and nothing has been written to it but *)
(* its refusal line, once, when its first line was blank or missing.        *)
C30_UnregisteredNeverTarget ==
    \A s \in Conns : Unregistered(s) =>
        /\ s \notin KeySet(clients)
        /\ \A b \in bcasts : s \notin Range(b.snap)
        /\ \A t \in Conns :
              /\ target_sock[t] # s
              /\ \A i \in 1..Len(stack[t]) : s \notin Range(stack[t][i].targets)
        /\ WritesTo(s, LAMBDA r : r.kind # "refuse") = 0
        /\ WritesTo(s, LAMBDA r : r.kind = "refuse") <= 1
        /\ WritesTo(s, LAMBDA r : r.kind = "refuse") = 1 =>
              Blank(s) \/ nickname[s] = NoLine

\* while one connection awaits its first line and another has been refused,
\* a chat line has been broadcast and a whisper delivered: the first has
\* been sent nothing, the second its refusal only
C30_Witness ==
    \E s, u \in Conns :
        /\ Unregistered(s) /\ pc[s] = "recv_nick" /\ wire[s] = EmptyBag
        /\ Unregistered(u) /\ Blank(u) /\ closed[u]
        /\ WritesTo(u, LAMBDA r : r.kind = "refuse") = 1
        /\ \E b \in bcasts : b.kind = "chat" /\ ~InProgress(b.kind, b.about, b.ln)
                             /\ Len(b.snap) >= 1

=============================================================================
